---- MODULE Spec2Model ----
(***************************************************************************)
(* Cosmic Voyager: the per-frame simulation of App (updateAndDraw and its  *)
(* helpers), the start/reset lifecycle, the game-over timer and the        *)
(* useGameLoop animation-frame loop.                                       *)
(*                                                                         *)
(* Numbers.  The program computes in floating point; the model computes in *)
(* fixed point, rounding toward zero:                                      *)
(*   - positions, velocities, radii: 1/PX of a pixel;                      *)
(*   - enemy health: 1/HP of a health point (health = radius/2 is exact);  *)
(*   - a value of Math.random() in [0,1): an integer roll in 0..ONE-1;     *)
(*   - player.rotation: a whole number of turn steps of 0.1 rad, counted   *)
(*     from -pi/2; enemy.rotation: a whole number of steps of 0.01 rad;    *)
(*   - particle life and every time: milliseconds.                         *)
(* Drawing, sound and the background stars and nebulas change no state     *)
(* that the simulation reads and are left out.  React state updates made   *)
(* by a handler are committed, and the effect of useGameLoop re-run, at    *)
(* the end of the action that models the handler.                          *)
(***************************************************************************)
EXTENDS Integers, Sequences, FiniteSets, TLC

\* ---------------------------------------------------------------- units
PX == 100
HP == 2 * PX
ONE == 1000
TRIG == 10000

\* ------------------------------------------------- constants of the source
PLAYER_SIZE == 20
PLAYER_THRUST == PX \div 10
PLAYER_MAX_SPEED == 5
PLAYER_FRICTION == 99
PLAYER_LASER_SPEED == 7
PLAYER_SHOOT_COOLDOWN == 200
PLAYER_MAX_HEALTH == 100
ENEMY_LASER_SPEED == 5
COS_TURN == 9950
SIN_TURN == 998

\* ---------------------------------------------------------------- bounds
\* Spec runs at most MaxFrames animation frames, SpecLong at most MaxFramesLong,
\* SpecDuel at most MaxFramesDuel, SpecLive at most MaxFramesLive.
MaxFrames == 3
MaxFramesLong == 50
MaxFramesDuel == 30
MaxFramesLive == 14
\* in Spec at most MaxShooters enemies roll a shot in one tick.
MaxShooters == 1

\* --------------------------------------------------------------- helpers
Div0(a, b) == IF a >= 0 THEN a \div b ELSE -((-a) \div b)

CeilDiv(a, b) == (a + b - 1) \div b

RECURSIVE SqrtIter(_, _, _)
SqrtIter(n, lo, hi) ==
  IF lo >= hi THEN lo
  ELSE LET mid == (lo + hi + 1) \div 2
       IN  IF mid * mid <= n THEN SqrtIter(n, mid, hi) ELSE SqrtIter(n, lo, mid - 1)

\* Math.sqrt, rounded down
Sqrt(n) == SqrtIter(n, 0, 46340)

Vec(a, b) == [x |-> a, y |-> b]

Copies(n, e) == [i \in 1..n |-> e]

Min(S) == CHOOSE m \in S : \A n \in S : m <= n

\* ------------------------------------------------------------- geometry
\* distance(p1, p2) squared
distance2(p1, p2) == (p1.x - p2.x) * (p1.x - p2.x) + (p1.y - p2.y) * (p1.y - p2.y)

\* sqrt(d2) < r  <=>  r > 0 /\ d2 < r*r
checkCollision(obj1, obj2) ==
  LET r == obj1.radius + obj2.radius
  IN  r > 0 /\ distance2(obj1.position, obj2.position) < r * r

\* Math.random() * (max - min) + min, for the roll r
randomBetween(r, min, max) == (r * (max - min)) \div ONE + min

\* (cos, sin) * TRIG of the angle -pi/2 + k * 0.1
RECURSIVE Dir(_)
Dir(k) ==
  IF k = 0 THEN Vec(0, -TRIG)
  ELSE IF k > 0
       THEN LET d == Dir(k - 1)
            IN  Vec(Div0(d.x * COS_TURN - d.y * SIN_TURN, TRIG),
                    Div0(d.y * COS_TURN + d.x * SIN_TURN, TRIG))
       ELSE LET d == Dir(k + 1)
            IN  Vec(Div0(d.x * COS_TURN + d.y * SIN_TURN, TRIG),
                    Div0(d.y * COS_TURN - d.x * SIN_TURN, TRIG))

\* (cos, sin) * speed of the angle atan2(dy, dx); atan2(0, 0) = 0
Aim(dx, dy, speed) ==
  LET d == Sqrt(dx * dx + dy * dy)
  IN  IF d = 0 THEN Vec(speed, 0) ELSE Vec(Div0(dx * speed, d), Div0(dy * speed, d))

\* --------------------------------------------------------- entity motion
InView(l, dims) ==
  /\ l.position.x > 0
  /\ l.position.x < dims.width
  /\ l.position.y > 0
  /\ l.position.y < dims.height

InWrapBand(obj, dims) ==
  /\ obj.position.x >= -obj.radius
  /\ obj.position.x <= dims.width + obj.radius
  /\ obj.position.y >= -obj.radius
  /\ obj.position.y <= dims.height + obj.radius

\* an axis on which nothing is ever teleported
neverWrapped(c, radius, extent) == c

\* the four tests run in this order, each on the result of the one before
wrapAxis(c, radius, extent) ==
  LET c1 == IF c < -radius THEN extent + radius ELSE c
  IN  IF c1 > extent + radius THEN -radius ELSE c1

updatePosition(obj, dims) ==
  [obj EXCEPT !.position =
     Vec(wrapAxis(obj.position.x + obj.velocity.x, obj.radius, dims.width),
         wrapAxis(obj.position.y + obj.velocity.y, obj.radius, dims.height))]

\* -------------------------------------------------------------- particles
\* one particle of createExplosion; b holds the four rolls of Math.random
burstParticle(position, color, size, b) ==
  [position  |-> Vec(position.x, position.y),
   velocity  |-> Vec(randomBetween(b.vx, -3 * PX, 3 * PX),
                     randomBetween(b.vy, -3 * PX, 3 * PX)),
   radius    |-> (b.radius * size) \div ONE,
   color     |-> color,
   life      |-> 1000,
   maxLife   |-> 1000,
   startSize |-> (b.startSize * size) \div ONE + PX]

\* the particles of one burst draw the same rolls b
createExplosion(particles, position, count, color, size, b) ==
  particles \o Copies(count, burstParticle(position, color, size, b))

ThrustColors == <<"#ffc83d", "#ff7800", "#ffffff">>

thrustParticle(player, t) ==
  LET d == Dir(player.rotation + randomBetween(t.angle, -3, 3))
  IN  [position  |-> player.position,
       velocity  |-> Vec(player.velocity.x - Div0(d.x * 2 * PX, TRIG),
                         player.velocity.y - Div0(d.y * 2 * PX, TRIG)),
       radius    |-> randomBetween(t.radius, 1 * PX, 3 * PX),
       color     |-> ThrustColors[(t.color * 3) \div ONE + 1],
       life      |-> 500,
       maxLife   |-> 500,
       startSize |-> randomBetween(t.startSize, 2 * PX, 4 * PX)]

\* ----------------------------------------------------------------- world
\* the refs a tick reads and writes, as one record:
\*   player (<<>> is null), enemies, lasers, particles, lastShot, score (the
\*   state setScore updates), timers (the due times of the setTimeout calls),
\*   nextId (the next fresh id) and hits (what the collision sweeps did, kept
\*   for the properties: the code keeps no such record)
NoPlayer == << >>

freshPlayer(dims) ==
  [id        |-> "player",
   position  |-> Vec(dims.width \div 2, dims.height \div 2),
   velocity  |-> Vec(0, 0),
   radius    |-> (PLAYER_SIZE * PX) \div 2,
   rotation  |-> 0,
   health    |-> PLAYER_MAX_HEALTH,
   maxHealth |-> PLAYER_MAX_HEALTH]

\* a reset that forgets to empty the lasers
resetKeepsLasers(w, dims) ==
  [w EXCEPT !.player = <<freshPlayer(dims)>>,
            !.enemies = << >>,
            !.particles = << >>,
            !.score = 0]

\* resetGame: the refs it assigns and the score it sets; lastShot and nextId stay
resetGame(w, dims) ==
  [w EXCEPT !.player = <<freshPlayer(dims)>>,
            !.enemies = << >>,
            !.lasers = << >>,
            !.particles = << >>,
            !.score = 0]

Held(keys, a, b) == a \in keys \/ b \in keys

\* a fire test without the cooldown
firesWhenHeld(keys, now, lastShot) == "Space" \in keys

\* keys['Space'] and now - lastShotTimeRef.current > PLAYER_SHOOT_COOLDOWN
mayFire(keys, now, lastShot) ==
  "Space" \in keys /\ now - lastShot > PLAYER_SHOOT_COOLDOWN

handlePlayerControls(w, keys, now, rt) ==
  IF w.player = NoPlayer THEN w
  ELSE
    LET p0    == w.player[1]
        up    == Held(keys, "ArrowUp", "KeyW")
        d0    == Dir(p0.rotation)
        v1    == IF up
                 THEN Vec(p0.velocity.x + Div0(d0.x * PLAYER_THRUST, TRIG),
                          p0.velocity.y + Div0(d0.y * PLAYER_THRUST, TRIG))
                 ELSE p0.velocity
        p1    == [p0 EXCEPT !.velocity = v1]
        parts == IF up
                 THEN w.particles \o [i \in 1..2 |-> thrustParticle(p1, rt[i])]
                 ELSE w.particles
        rot1  == IF Held(keys, "ArrowLeft", "KeyA") THEN p0.rotation - 1 ELSE p0.rotation
        rot2  == IF Held(keys, "ArrowRight", "KeyD") THEN rot1 + 1 ELSE rot1
        max   == PLAYER_MAX_SPEED * PX
        speed == Sqrt(v1.x * v1.x + v1.y * v1.y)
        v2    == IF v1.x * v1.x + v1.y * v1.y > max * max
                 THEN Vec(Div0(v1.x * max, speed), Div0(v1.y * max, speed))
                 ELSE v1
        v3    == Vec(Div0(v2.x * PLAYER_FRICTION, 100), Div0(v2.y * PLAYER_FRICTION, 100))
        fire  == mayFire(keys, now, w.lastShot)
        d2    == Dir(rot2)
        laser == [id            |-> w.nextId,
                  position      |-> p0.position,
                  velocity      |-> Vec(Div0(d2.x * PLAYER_LASER_SPEED * PX, TRIG),
                                        Div0(d2.y * PLAYER_LASER_SPEED * PX, TRIG)),
                  radius        |-> 2 * PX,
                  isPlayerLaser |-> TRUE]
    IN  [w EXCEPT !.player    = <<[p0 EXCEPT !.velocity = v3, !.rotation = rot2]>>,
                  !.particles = parts,
                  !.lastShot  = IF fire THEN now ELSE @,
                  !.lasers    = IF fire THEN Append(@, laser) ELSE @,
                  !.nextId    = IF fire THEN @ + 1 ELSE @]

\* "Update & Draw Player"
stepPlayer(w, keys, now, rt, dims) ==
  IF w.player = NoPlayer THEN w
  ELSE LET w1 == handlePlayerControls(w, keys, now, rt)
       IN  [w1 EXCEPT !.player = <<updatePosition(w1.player[1], dims)>>]

\* "Update & Draw Lasers": the filter, then the step of what it kept
filterLasers(lasers, dims) == SelectSeq(lasers, LAMBDA l : InView(l, dims))

\* a laser block that is skipped when there is no player
stepLasersIfPlayer(w, dims) ==
  IF w.player = NoPlayer THEN w
  ELSE [w EXCEPT !.lasers = [i \in 1..Len(filterLasers(@, dims)) |->
                               updatePosition(filterLasers(w.lasers, dims)[i], dims)]]

stepLasers(w, dims) ==
  LET kept == filterLasers(w.lasers, dims)
  IN  [w EXCEPT !.lasers = [i \in 1..Len(kept) |-> updatePosition(kept[i], dims)]]

\* a filter that keeps every particle, dead or not
filterNoParticles(particles) == particles

\* "Update & Draw Particles": the filter, then the step of what it kept
filterParticles(particles) == SelectSeq(particles, LAMBDA p : p.life > 0)

stepParticle(p, deltaTime, dims) ==
  LET p1 == updatePosition([p EXCEPT !.life = @ - deltaTime], dims)
  IN  [p1 EXCEPT !.radius = Div0(p1.startSize * p1.life, p1.maxLife)]

stepParticles(w, deltaTime, dims) ==
  LET kept == filterParticles(w.particles)
  IN  [w EXCEPT !.particles = [i \in 1..Len(kept) |-> stepParticle(kept[i], deltaTime, dims)]]

\* "Update & Draw Enemies": a meteor also spins
stepEnemy(e, dims) ==
  LET e1 == updatePosition(e, dims)
  IN  IF e1.type = "Meteor" THEN [e1 EXCEPT !.rotation = @ + 1] ELSE e1

stepEnemies(w, dims) ==
  [w EXCEPT !.enemies = [i \in 1..Len(w.enemies) |-> stepEnemy(w.enemies[i], dims)]]

\* ------------------------------------------------------------- spawning
\* the live-enemy cap of the spawn test
enemyCap(score) == 5 + score \div 500

\* a choice of type that looks at the roll only
spawnTypeUngated(score, typeRoll) ==
  IF typeRoll > 950 THEN "Mothership"
  ELSE IF typeRoll > 700 THEN "Saucer"
  ELSE "Meteor"

\* the type the rolls choose: typeRoll > 0.95, typeRoll > 0.7
spawnType(score, typeRoll) ==
  IF score > 1000 /\ typeRoll > 950 THEN "Mothership"
  ELSE IF score > 200 /\ typeRoll > 700 THEN "Saucer"
  ELSE "Meteor"

\* the enemy pushed by one spawn; s holds its rolls of Math.random
newEnemy(id, score, dims, s) ==
  LET type   == spawnType(score, s.type)
      radius == CASE type = "Mothership" -> 60 * PX
                  [] type = "Saucer"     -> 20 * PX
                  [] OTHER               -> randomBetween(s.radius, 15 * PX, 40 * PX)
      health == CASE type = "Mothership" -> 50 * HP
                  [] type = "Saucer"     -> 10 * HP
                  [] OTHER               -> (radius * HP) \div (2 * PX)
      side   == (s.side * 4) \div ONE
      position ==
        CASE side = 0 -> Vec(randomBetween(s.along, 0, dims.width), -radius)
          [] side = 1 -> Vec(dims.width + radius, randomBetween(s.along, 0, dims.height))
          [] side = 2 -> Vec(randomBetween(s.along, 0, dims.width), dims.height + radius)
          [] OTHER    -> Vec(-radius, randomBetween(s.along, 0, dims.height))
  IN  [id        |-> id,
       type      |-> type,
       position  |-> position,
       velocity  |-> Vec(randomBetween(s.vx, -1 * PX, 1 * PX),
                         randomBetween(s.vy, -1 * PX, 1 * PX)),
       radius    |-> radius,
       health    |-> health,
       maxHealth |-> health,
       rotation  |-> 0]

\* a spawn test that still spawns at the cap
spawnDueAtCap(enemies, score) == Len(enemies) <= enemyCap(score)

\* the test of "Spawn new enemies", on the score the callback closed over
spawnDue(enemies, score) == Len(enemies) < enemyCap(score)

\* a spawn block that takes its decision twice in a tick
spawnsTwice(w, score, dims, s) ==
  LET once(v) == IF spawnDue(v.enemies, score)
                 THEN [v EXCEPT !.enemies = Append(@, newEnemy(v.nextId, score, dims, s)),
                                !.nextId  = @ + 1]
                 ELSE v
  IN  once(once(w))

\* "Spawn new enemies"
spawnEnemies(w, score, dims, s) ==
  IF spawnDue(w.enemies, score)
  THEN [w EXCEPT !.enemies = Append(@, newEnemy(w.nextId, score, dims, s)),
                 !.nextId  = @ + 1]
  ELSE w

\* ------------------------------------------------------------- enemy AI
Shooter(e) == e.type = "Saucer" \/ e.type = "Mothership"

enemyLaser(id, e, player) ==
  [id            |-> id,
   position      |-> e.position,
   velocity      |-> Aim(player.position.x - e.position.x,
                         player.position.y - e.position.y, ENEMY_LASER_SPEED * PX),
   radius        |-> 3 * PX,
   isPlayerLaser |-> FALSE]

\* rolled: the indexes of the enemies whose Math.random() < 0.01 this tick
RECURSIVE shootFrom(_, _, _)
shootFrom(w, i, rolled) ==
  IF i > Len(w.enemies) THEN w
  ELSE IF Shooter(w.enemies[i]) /\ i \in rolled /\ w.player # NoPlayer
       THEN shootFrom([w EXCEPT !.lasers = Append(@, enemyLaser(w.nextId, w.enemies[i], w.player[1])),
                                !.nextId = @ + 1], i + 1, rolled)
       ELSE shootFrom(w, i + 1, rolled)

enemyAI(w, rolled) == shootFrom(w, 1, rolled)

\* ------------------------------------------------------------ collisions
RECURSIVE burstsAt(_, _, _, _, _, _)
burstsAt(particles, at, count, color, size, b) ==
  IF at = << >> THEN particles
  ELSE burstsAt(createExplosion(particles, Head(at).position, count, color, size, b),
                Tail(at), count, color, size, b)

\* an award computed from the health the enemy had left
awardOfHealthLeft(enemy) == (enemy.health * 5) \div HP

\* Math.floor(enemy.maxHealth * 5)
scoreAward(enemy) == (enemy.maxHealth * 5) \div HP

laserHitsEnemy(laser, enemy) == laser.isPlayerLaser /\ checkCollision(laser, enemy)

\* the health an enemy is left with by n laser hits
damaged(enemy, n) == enemy.health - 5 * HP * n

\* a sweep that leaves the lasers that hit in the working set
sweepKeepsLasers(w, enemy, b) ==
  LET hitters   == SelectSeq(w.lasers, LAMBDA l : laserHitsEnemy(l, enemy))
      health    == damaged(enemy, Len(hitters))
      enemyDestroyed == Len(hitters) > 0 /\ health <= 0
  IN  [w EXCEPT
         !.score      = IF enemyDestroyed THEN @ + scoreAward(enemy) ELSE @,
         !.newEnemies = IF enemyDestroyed THEN @ ELSE Append(@, [enemy EXCEPT !.health = health]),
         !.hits       = @ \o [i \in 1..Len(hitters) |-> [laser |-> hitters[i].id, enemy |-> enemy.id]]]

\* the body of "for (const enemy of enemiesRef.current)" for one enemy; the hits
\* lower the health one by one, so the enemy is destroyed iff it is hit and its
\* health ends <= 0
sweepEnemy(w, enemy, b) ==
  LET hitters   == SelectSeq(w.lasers, LAMBDA l : laserHitsEnemy(l, enemy))
      newLasers == SelectSeq(w.lasers, LAMBDA l : ~laserHitsEnemy(l, enemy))
      health    == damaged(enemy, Len(hitters))
      enemyDestroyed == Len(hitters) > 0 /\ health <= 0
      parts1    == burstsAt(w.particles, hitters, 5, "#00f2ff", 2 * PX, b)
  IN  [w EXCEPT
         !.lasers     = newLasers,
         !.particles  = IF enemyDestroyed
                        THEN createExplosion(parts1, enemy.position, CeilDiv(enemy.radius, PX),
                                             IF enemy.type = "Saucer" THEN "#8338ec" ELSE "#a9a9a9",
                                             enemy.radius \div 2, b)
                        ELSE parts1,
         !.score      = IF enemyDestroyed THEN @ + scoreAward(enemy) ELSE @,
         !.newEnemies = IF enemyDestroyed THEN @ ELSE Append(@, [enemy EXCEPT !.health = health]),
         !.hits       = @ \o [i \in 1..Len(hitters) |-> [laser |-> hitters[i].id, enemy |-> enemy.id]]]

RECURSIVE sweepFrom(_, _, _)
sweepFrom(w, i, b) ==
  IF i > Len(w.enemies) THEN w ELSE sweepFrom(sweepEnemy(w, w.enemies[i], b), i + 1, b)

\* "Player lasers vs enemies"
lasersVsEnemies(w, b) ==
  LET w1 == sweepFrom([w EXCEPT !.newEnemies = << >>], 1, b)
  IN  [w1 EXCEPT !.enemies = w1.newEnemies]

\* the indexes of the enemies overlapping the player
overlapping(player, enemies) ==
  {i \in 1..Len(enemies) : checkCollision(player, enemies[i])}

\* a loop without the break: every overlapping enemy is resolved
resolvedAll(over) == over

\* which of the overlapping enemies the loop resolves: it breaks after the first
resolved(over) == IF over = {} THEN {} ELSE {Min(over)}

\* a contact loop that awards the enemy it removes like a laser kill
RECURSIVE contactAwards(_, _, _, _)
contactAwards(w, enemies, todo, b) ==
  IF todo = {} THEN w
  ELSE LET i     == Min(todo)
           enemy == enemies[i]
       IN  contactAwards(
             [w EXCEPT !.player    = <<[@[1] EXCEPT !.health = @ - 20]>>,
                       !.score     = @ + scoreAward(enemy),
                       !.enemies   = SelectSeq(@, LAMBDA e : e.id # enemy.id)],
             enemies, todo \ {i}, b)

\* the loop over the enemies overlapping the player: health, explosion, removal
RECURSIVE contactFrom(_, _, _, _)
contactFrom(w, enemies, todo, b) ==
  IF todo = {} THEN w
  ELSE LET i     == Min(todo)
           enemy == enemies[i]
       IN  contactFrom(
             [w EXCEPT !.player    = <<[@[1] EXCEPT !.health = @ - 20]>>,
                       !.particles = createExplosion(@, enemy.position, CeilDiv(enemy.radius, PX),
                                                     "#ffbe0b", enemy.radius \div 2, b),
                       !.enemies   = SelectSeq(@, LAMBDA e : e.id # enemy.id)],
             enemies, todo \ {i}, b)

\* "Player vs enemies"
playerVsEnemies(w, b) ==
  IF w.player = NoPlayer THEN w
  ELSE contactFrom(w, w.enemies, resolved(overlapping(w.player[1], w.enemies)), b)

\* a player check that takes a laser of either side
anyLaserHitsPlayer(laser, player) == checkCollision(laser, player)

laserHitsPlayer(laser, player) == ~laser.isPlayerLaser /\ checkCollision(laser, player)

\* "enemy lasers" vs player
lasersVsPlayer(w, b) ==
  IF w.player = NoPlayer THEN w
  ELSE LET p       == w.player[1]
           hitters == SelectSeq(w.lasers, LAMBDA l : laserHitsPlayer(l, p))
       IN  [w EXCEPT !.player     = <<[p EXCEPT !.health = @ - 10 * Len(hitters)]>>,
                     !.particles  = burstsAt(@, hitters, 10, "#ff4136", 3 * PX, b),
                     !.lasers     = SelectSeq(@, LAMBDA l : ~laserHitsPlayer(l, p)),
                     !.playerHits = [i \in 1..Len(hitters) |-> hitters[i].id]]

\* a death branch that schedules nothing
schedulesNothing(timers, now) == timers

\* what the death branch does to the game status: it only schedules the timer
deathSchedules(timers, now) == Append(timers, now + 1000)

\* a tick without the death check
playerNeverDies(w, now, b) == w

\* the death check
playerDeath(w, now, b) ==
  IF w.player # NoPlayer /\ w.player[1].health <= 0
  THEN [w EXCEPT !.particles = createExplosion(@, w.player[1].position, 40, "#00f2ff", 20 * PX, b),
                 !.player    = NoPlayer,
                 !.timers    = deathSchedules(@, now)]
  ELSE w

\* -------------------------------------------------------------- one tick
\* updateAndDraw(deltaTime) as the worlds after each of its blocks, in order:
\*  1 player, 2 lasers, 3 particles, 4 enemies, 5 spawn, 6 enemy AI,
\*  7 lasers vs enemies, 8 player vs enemies, 9 enemy lasers vs player, 10 death.
\* keys and score are the ones the callback closed over; now is the clock.
stages(w, keys, score, dims, deltaTime, now, rnd) ==
  LET last(st)     == st[Len(st)]
      b1(st)  == Append(st, stepPlayer(last(st), keys, now, rnd.thrust, dims))
      b2(st)  == Append(st, stepLasers(last(st), dims))
      b3(st)  == Append(st, stepParticles(last(st), deltaTime, dims))
      b4(st)  == Append(st, stepEnemies(last(st), dims))
      b5(st)  == Append(st, spawnEnemies(last(st), score, dims, rnd.spawn))
      b6(st)  == Append(st, enemyAI(last(st), rnd.shots))
      b7(st)  == Append(st, lasersVsEnemies(last(st), rnd.burst))
      b8(st)  == Append(st, playerVsEnemies(last(st), rnd.burst))
      b9(st)  == Append(st, lasersVsPlayer(last(st), rnd.burst))
      b10(st) == Append(st, playerDeath(last(st), now, rnd.burst))
      w0      == [w EXCEPT !.hits = << >>, !.playerHits = << >>, !.newEnemies = << >>]
  IN  Tail(b10(b9(b8(b7(b6(b5(b4(b3(b2(b1(<<w0>>)))))))))))

Ids(s) == [i \in 1..Len(s) |-> s[i].id]

SeqOfSet(s, S) == SelectSeq(s, LAMBDA e : e \in S)

\* what one tick did, read off the worlds between its blocks (the code keeps
\* no such record; the properties are stated on it)
\* the collections before and after their step, kept for the ticks that run
\* without a player
stepsOf(w, st) ==
  [enemies0 |-> w.enemies, enemies1 |-> st[4].enemies,
   lasers0 |-> w.lasers, lasers1 |-> st[2].lasers,
   particles0 |-> w.particles, particles1 |-> st[3].particles]

observe(w, st, dims, deltaTime, keys, rnd) ==
  [deltaTime       |-> deltaTime,
   score0          |-> w.score,
   keys            |-> keys,
   absent          |-> w.player = NoPlayer,
   steps           |-> IF w.player = NoPlayer THEN <<stepsOf(w, st)>> ELSE << >>,
   timers0         |-> w.timers,
   lastShot0       |-> w.lastShot,
   fired           |-> SubSeq(st[1].lasers, Len(w.lasers) + 1, Len(st[1].lasers)),
   thrust          |-> Len(st[1].particles) - Len(w.particles),
   rolled          |-> {i \in rnd.shots : i <= Len(st[5].enemies) /\ Shooter(st[5].enemies[i])},
   shot            |-> SubSeq(st[6].lasers, Len(st[5].lasers) + 1, Len(st[6].lasers)),
   sweepLasers     |-> st[6].lasers,
   swept           |-> st[7].enemies,
   sweepScore      |-> st[7].score,
   duelLasers      |-> st[8].lasers,
   duelPlayer      |-> st[8].player,
   duelHealth      |-> IF st[9].player = NoPlayer THEN << >> ELSE <<st[9].player[1].health>>,
   duelLeft        |-> Ids(st[9].lasers),
   prunedParticles |-> Len(st[1].particles) - Len(st[3].particles),
   prunedLasers    |-> Len(st[1].lasers) - Len(st[2].lasers),
   wrappedLasers   |-> LET kept == SelectSeq(st[1].lasers, LAMBDA l : InView(l, dims))
                       IN  {kept[i].id : i \in {j \in 1..Len(kept) :
                              st[2].lasers[j].position #
                                Vec(kept[j].position.x + kept[j].velocity.x,
                                    kept[j].position.y + kept[j].velocity.y)}},
   spawned         |-> SubSeq(st[5].enemies, Len(st[4].enemies) + 1, Len(st[5].enemies)),
   afterSpawn      |-> Len(st[5].enemies),
   combat          |-> st[6].enemies,
   combatLasers    |-> Ids(st[6].lasers),
   hits            |-> st[7].hits,
   combatLeft      |-> Ids(st[7].lasers),
   contact         |-> Ids(st[7].enemies),
   overlap         |-> IF st[7].player = NoPlayer THEN << >>
                       ELSE Ids(SelectSeq(st[7].enemies,
                                          LAMBDA e : checkCollision(st[7].player[1], e))),
   contactHealth   |-> IF st[7].player = NoPlayer THEN << >>
                       ELSE <<st[7].player[1].health, st[8].player[1].health>>,
   afterContact    |-> Ids(st[8].enemies),
   playerHits      |-> st[9].playerHits,
   died            |-> st[9].player # NoPlayer /\ st[10].player = NoPlayer]

NoTick ==
  [keys |-> {}, absent |-> FALSE, steps |-> << >>, timers0 |-> << >>, lastShot0 |-> 0,
   fired |-> << >>, thrust |-> 0, rolled |-> {}, shot |-> << >>, sweepLasers |-> << >>,
   swept |-> << >>, sweepScore |-> 0, duelLasers |-> << >>, duelPlayer |-> << >>,
   duelHealth |-> << >>, duelLeft |-> << >>,
   deltaTime |-> 0, score0 |-> 0, prunedParticles |-> 0, prunedLasers |-> 0,
   wrappedLasers |-> {}, spawned |-> << >>, afterSpawn |-> 0, combat |-> << >>,
   combatLasers |-> << >>, hits |-> << >>, combatLeft |-> << >>, contact |-> << >>, overlap |-> << >>,
   contactHealth |-> << >>, afterContact |-> << >>, playerHits |-> << >>,
   died |-> FALSE]

\* ------------------------------------------------------------ useGameLoop
\* previousTimeRef.current === undefined
Undefined == 0 - 1

\* a handle no pending request holds.  Every call of requestAnimationFrame
\* stores its result in requestRef, so the handle requestRef named before is
\* forgotten when the new one is made and may be given out again.
freshHandle(queue) ==
  Min({h \in 1..(Cardinality(queue) + 1) : \A f \in queue : f.handle # h})

\* loop: [requestRef, previousTimeRef, queue]; queue holds the pending
\* animation-frame requests, each with the callback (its score and keys) that
\* animate closed over
requestAnimationFrame(loop, closure) ==
  LET h == freshHandle(loop.queue)
  IN  [loop EXCEPT !.requestRef = h,
                   !.queue = @ \cup {[handle |-> h, score |-> closure.score, keys |-> closure.keys]}]

\* a cancel that leaves the request pending
cancelsNothing(loop) == loop

\* cancelAnimationFrame(requestRef.current)
cancelAnimationFrame(loop) ==
  [loop EXCEPT !.queue = {f \in @ : f.handle # loop.requestRef}]

\* a cleanup that cancels nothing
cleanupKeepsRequest(loop) == loop

\* the effect's cleanup
effectCleanup(loop) ==
  IF loop.requestRef # 0 THEN cancelAnimationFrame(loop) ELSE loop

\* a body that leaves previousTimeRef as it is when the loop is stopped
stopKeepsPreviousTime(loop, isRunning, closure) ==
  IF isRunning THEN requestAnimationFrame(loop, closure)
  ELSE IF loop.requestRef # 0 THEN cancelAnimationFrame(loop) ELSE loop

\* the effect's body
effectBody(loop, isRunning, closure) ==
  IF isRunning THEN requestAnimationFrame(loop, closure)
  ELSE IF loop.requestRef # 0
       THEN [cancelAnimationFrame(loop) EXCEPT !.previousTimeRef = Undefined]
       ELSE loop

\* a render in which isRunning or callback changed: cleanup, then the body
effectRerun(loop, isRunning, closure) ==
  effectBody(effectCleanup(loop), isRunning, closure)

\* ----------------------------------------------------------------- state
VARIABLES
  gameStatus,        \* useState(GameStatus.StartScreen)
  score,             \* useState(0)
  keysPressed,       \* useKeyboardInput's state
  dimensions,        \* dimensions.current
  playerRef,         \* playerRef.current; << >> is null
  enemiesRef,
  lasersRef,
  particlesRef,
  lastShotTimeRef,
  requestRef,        \* useGameLoop's requestRef.current; 0 is undefined
  previousTimeRef,   \* useGameLoop's previousTimeRef.current
  queue,             \* the browser's pending animation-frame requests
  timers,            \* the browser's pending setTimeout calls: their due times
  now,               \* the clock of performance.now() and of the frame timestamps
  nextId,            \* the next fresh entity id
  frames,            \* the animation frames run so far
  lastFrame,         \* <<the time of the last frame>> since the status became
                     \* Playing, << >> when none has run since
  lastOp,            \* the handler that ran last
  tick               \* what the last tick did (observe); NoTick after other handlers

vars == <<gameStatus, score, keysPressed, dimensions, playerRef, enemiesRef, lasersRef,
          particlesRef, lastShotTimeRef, requestRef, previousTimeRef, queue, timers,
          now, nextId, frames, lastFrame, lastOp, tick>>

World ==
  [player |-> playerRef, enemies |-> enemiesRef, lasers |-> lasersRef,
   particles |-> particlesRef, lastShot |-> lastShotTimeRef, score |-> score,
   timers |-> timers, nextId |-> nextId,
   hits |-> << >>, playerHits |-> << >>, newEnemies |-> << >>]

Loop == [requestRef |-> requestRef, previousTimeRef |-> previousTimeRef, queue |-> queue]

SetWorld(w) ==
  /\ playerRef' = w.player
  /\ enemiesRef' = w.enemies
  /\ lasersRef' = w.lasers
  /\ particlesRef' = w.particles
  /\ lastShotTimeRef' = w.lastShot
  /\ score' = w.score
  /\ timers' = w.timers
  /\ nextId' = w.nextId

SetLoop(l) ==
  /\ requestRef' = l.requestRef
  /\ previousTimeRef' = l.previousTimeRef
  /\ queue' = l.queue

\* the callback of the current render
Closure(sc, keys) == [score |-> sc, keys |-> keys]

\* the window sizes of a run, width x height
Dim(wpx, hpx) == [width |-> wpx * PX, height |-> hpx * PX]

InitIn(dims) ==
  /\ gameStatus = "StartScreen"
  /\ score = 0
  /\ keysPressed = {}
  /\ dimensions \in dims
  /\ playerRef = NoPlayer
  /\ enemiesRef = << >>
  /\ lasersRef = << >>
  /\ particlesRef = << >>
  /\ lastShotTimeRef = 0
  /\ requestRef = 0
  /\ previousTimeRef = Undefined
  /\ queue = {}
  /\ timers = << >>
  /\ now = 0
  /\ nextId = 1
  /\ frames = 0
  /\ lastFrame = << >>
  /\ lastOp = "mount"
  /\ tick = NoTick

\* --------------------------------------------------------------- handlers
\* startGame, the onClick of START GAME and of RESTART
StartGame ==
  /\ gameStatus \in {"StartScreen", "GameOver"}
  /\ SetWorld(resetGame(World, dimensions))
  /\ gameStatus' = "Playing"
  /\ SetLoop(effectRerun(Loop, TRUE, Closure(0, keysPressed)))
  /\ lastFrame' = << >>
  /\ lastOp' = "start"
  /\ tick' = NoTick
  /\ UNCHANGED <<keysPressed, dimensions, now, frames>>

\* handleKeyDown
KeyDown(k) ==
  /\ k \notin keysPressed
  /\ keysPressed' = keysPressed \cup {k}
  /\ SetLoop(effectRerun(Loop, gameStatus = "Playing", Closure(score, keysPressed')))
  /\ lastOp' = "input"
  /\ tick' = NoTick
  /\ UNCHANGED <<gameStatus, score, dimensions, playerRef, enemiesRef, lasersRef,
                 particlesRef, lastShotTimeRef, timers, now, nextId, frames, lastFrame>>

\* handleKeyUp
KeyUp(k) ==
  /\ k \in keysPressed
  /\ keysPressed' = keysPressed \ {k}
  /\ SetLoop(effectRerun(Loop, gameStatus = "Playing", Closure(score, keysPressed')))
  /\ lastOp' = "input"
  /\ tick' = NoTick
  /\ UNCHANGED <<gameStatus, score, dimensions, playerRef, enemiesRef, lasersRef,
                 particlesRef, lastShotTimeRef, timers, now, nextId, frames, lastFrame>>

\* handleResize
Resize(d) ==
  /\ d # dimensions
  /\ dimensions' = d
  /\ lastOp' = "input"
  /\ tick' = NoTick
  /\ UNCHANGED <<gameStatus, score, keysPressed, playerRef, enemiesRef, lasersRef,
                 particlesRef, lastShotTimeRef, requestRef, previousTimeRef, queue,
                 timers, now, nextId, frames, lastFrame>>

\* a timer callback that goes back to the start screen
timerToStartScreen(status) == "StartScreen"

\* what the timer's callback sets the status to
timerStatus(status) == "GameOver"

\* a tick that ends the game itself when the player is gone
gameOverOnDeath(status, w) == IF w.player = NoPlayer THEN "GameOver" ELSE status

\* the status a tick leaves: updateAndDraw never calls setGameStatus
tickStatus(status, w) == status

\* the callback of setTimeout(..., 1000), once it is due
GameOverTimer ==
  /\ timers # << >>
  /\ Head(timers) <= now
  /\ timers' = Tail(timers)
  /\ gameStatus' = timerStatus(gameStatus)
  /\ IF gameStatus' # gameStatus
     THEN SetLoop(effectRerun(Loop, gameStatus' = "Playing", Closure(score, keysPressed)))
     ELSE UNCHANGED <<requestRef, previousTimeRef, queue>>
  /\ lastFrame' = IF gameStatus' = "Playing" THEN lastFrame ELSE << >>
  /\ lastOp' = "timer"
  /\ tick' = NoTick
  /\ UNCHANGED <<score, keysPressed, dimensions, playerRef, enemiesRef, lasersRef,
                 particlesRef, lastShotTimeRef, now, nextId, frames>>

\* time passes with no frame until the pending timer is due (a hidden tab
\* gets no animation frames, and its timers still fire)
TimePasses ==
  /\ timers # << >>
  /\ Head(timers) > now
  /\ now' = Head(timers)
  /\ lastOp' = "wait"
  /\ tick' = NoTick
  /\ UNCHANGED <<gameStatus, score, keysPressed, dimensions, playerRef, enemiesRef,
                 lasersRef, particlesRef, lastShotTimeRef, requestRef, previousTimeRef,
                 queue, timers, nextId, frames, lastFrame>>

\* the rolls a tick may draw.  The shot rolls name the enemies whose
\* Math.random() < 0.01: any c.shooters of the saucers and motherships, or,
\* in a run of volleys, all of them
ShotSets(f, c) ==
  LET old  == {i \in 1..Len(enemiesRef) : Shooter(enemiesRef[i])}
      new  == IF spawnDue(enemiesRef, f.score)
                   /\ \E s \in c.spawns : spawnType(f.score, s.type) # "Meteor"
              THEN {Len(enemiesRef) + 1} ELSE {}
      cand == old \cup new
  IN  IF c.volleys THEN {cand} ELSE {S \in SUBSET cand : Cardinality(S) <= c.shooters}

Rolls(f, c) ==
  [thrust : IF playerRef # NoPlayer /\ Held(f.keys, "ArrowUp", "KeyW")
            THEN c.thrusts \X c.thrusts ELSE {<<>>},
   spawn  : IF spawnDue(enemiesRef, f.score) THEN c.spawns ELSE {<<>>},
   shots  : ShotSets(f, c),
   burst  : c.bursts]

\* the end of a tick: the refs hold the last world, React commits setScore
\* and re-runs the effect of useGameLoop when the score changed
commitTick(st, loop, deltaTime, keys, rnd) ==
  /\ SetWorld(st[10])
  /\ gameStatus' = tickStatus(gameStatus, st[10])
  /\ SetLoop(IF st[10].score # score \/ gameStatus' # gameStatus
             THEN effectRerun(loop, gameStatus' = "Playing",
                              Closure(st[10].score, keysPressed))
             ELSE loop)
  /\ tick' = observe(World, st, dimensions, deltaTime, keys, rnd)
  /\ lastOp' = "tick"

\* animate(time) up to the callback: the time is stored and the next frame
\* requested with the same callback
animate(loop, f, time) ==
  requestAnimationFrame([loop EXCEPT !.queue = @ \ {f}, !.previousTimeRef = time],
                        Closure(f.score, f.keys))

\* animate(time): one pending request runs at the frame time now + dt.  c gives
\* the run's choices: c.deltas, c.spawns, c.thrusts, c.bursts, c.shooters,
\* c.volleys, c.limit
AnimationFrame(c) ==
  \E f \in queue, dt \in c.deltas :
    /\ frames < c.limit
    /\ frames' = frames + 1
    /\ lastFrame' = <<now + dt>>
    /\ now' = now + dt
    /\ IF previousTimeRef # Undefined
       THEN \E rnd \in Rolls(f, c) :
              commitTick(stages(World, f.keys, f.score, dimensions,
                                now + dt - previousTimeRef, now + dt, rnd),
                         animate(Loop, f, now + dt), now + dt - previousTimeRef,
                         f.keys, rnd)
       ELSE /\ SetLoop(animate(Loop, f, now + dt))
            /\ tick' = NoTick
            /\ lastOp' = "frame"
            /\ UNCHANGED <<gameStatus, score, playerRef, enemiesRef, lasersRef,
                           particlesRef, lastShotTimeRef, timers, nextId>>
    /\ UNCHANGED <<keysPressed, dimensions>>

\* ------------------------------------------------------------------ runs
\* rolls of Math.random
ThrustRoll(angle, radius, color, startSize) ==
  [angle |-> angle, radius |-> radius, color |-> color, startSize |-> startSize]

BurstRoll(vx, vy, radius, startSize) ==
  [vx |-> vx, vy |-> vy, radius |-> radius, startSize |-> startSize]

SpawnRoll(type, radius, side, along, vx, vy) ==
  [type |-> type, radius |-> radius, side |-> side, along |-> along, vx |-> vx, vy |-> vy]

\* Spec: the first frames of a game with varied enemies, frame times, keys
\* and window sizes.  The ship survives MaxFrames frames (a contact costs 20
\* of its 100 health and a tick resolves one contact), so the game-over timer
\* is never set in these runs; SpecLong has it.
\* The spawn rolls: a 15 px meteor at rest at the top centre; a 16 px meteor
\* at the top right that drifts left and leaves through the top.
Choices ==
  [deltas  |-> {200, 1000},
   thrusts |-> {ThrustRoll(500, 500, 0, 500)},
   bursts  |-> {BurstRoll(500, 999, 500, 500)},
   spawns  |-> {SpawnRoll(500, 0, 0, 500, 500, 500),
                SpawnRoll(500, 40, 0, 900, 0, 0)},
   shooters |-> MaxShooters,
   volleys |-> FALSE,
   limit   |-> MaxFrames]

DimA == Dim(104, 30)
DimB == Dim(40, 9)

Dims == {DimA, DimB}

Keys == {"ArrowUp", "Space"}

Init == InitIn(Dims)

Next ==
  \/ StartGame
  \/ \E k \in Keys : KeyDown(k)
  \/ \E k \in Keys : KeyUp(k)
  \/ \E d \in Dims : Resize(d)
  \/ AnimationFrame(Choices)

Spec == Init /\ [][Next]_vars

\* SpecLong: long games played one way.  Every frame takes a second, every
\* enemy is spawned at rest at the top centre (a 20 px meteor, a saucer once
\* the score allows it, a mothership once the score allows it), no enemy
\* rolls a shot, and the only key is the fire key, which stays down once it
\* is pressed.  In the wide window the lasers reach the enemies and the
\* score grows; in the low window every spawned enemy touches the ship, which
\* dies, and the game is restarted after the game-over screen.
ChoicesLong ==
  [deltas  |-> {1000},
   thrusts |-> {ThrustRoll(500, 500, 0, 500)},
   bursts  |-> {BurstRoll(500, 999, 500, 500)},
   spawns  |-> {SpawnRoll(970, 200, 0, 500, 500, 500)},
   shooters |-> 0,
   volleys |-> FALSE,
   limit   |-> MaxFramesLong]

KeysLong == {"Space"}

InitLong == InitIn(Dims)

NextLong ==
  \/ StartGame
  \/ \E k \in KeysLong : KeyDown(k)
  \/ GameOverTimer
  \/ AnimationFrame(ChoicesLong)

SpecLong == InitLong /\ [][NextLong]_vars

\* SpecLive: shorter games played as in SpecLong, in which time also passes
\* without frames, time does not stop and a due timer fires
ChoicesLive == [ChoicesLong EXCEPT !.limit = MaxFramesLive]

NextLive ==
  \/ StartGame
  \/ \E k \in KeysLong : KeyDown(k)
  \/ TimePasses
  \/ GameOverTimer
  \/ AnimationFrame(ChoicesLive)

SpecLive ==
  InitLong /\ [][NextLive]_vars /\ WF_vars(TimePasses) /\ WF_vars(GameOverTimer)

\* SpecDuel: a game against shooting saucers.  Every frame takes a second,
\* every enemy is spawned at rest below the bottom centre, every saucer rolls
\* a shot in every tick, and the fire key stays down once it is pressed.  The
\* lasers of the ship leave through the top, are wrapped to the bottom and
\* hit the enemies there.  The window opens 30 px high and may be made 60 px
\* high: the saucers spawned before are then inside it and their lasers reach
\* the ship.
ChoicesDuel ==
  [deltas  |-> {1000},
   thrusts |-> {ThrustRoll(500, 500, 0, 500)},
   bursts  |-> {BurstRoll(500, 999, 500, 500)},
   spawns  |-> {SpawnRoll(970, 200, 500, 500, 500, 500)},
   shooters |-> 0,
   volleys |-> TRUE,
   limit   |-> MaxFramesDuel]

DimC == Dim(104, 60)

InitDuel == InitIn({DimA})

NextDuel ==
  \/ StartGame
  \/ \E k \in KeysLong : KeyDown(k)
  \/ Resize(DimC)
  \/ TimePasses
  \/ GameOverTimer
  \/ AnimationFrame(ChoicesDuel)

SpecDuel == InitDuel /\ [][NextDuel]_vars

\* ------------------------------------------------------------ properties
AfterTick == lastOp = "tick"

Range(s) == {s[i] : i \in 1..Len(s)}

\* C1 as stated: after every completed tick no particle of the collection has
\* life <= 0.
C1_NoDeadParticleAfterTick ==
  AfterTick => \A p \in Range(particlesRef) : p.life > 0

\* C1: a tick removes the particles whose life was <= 0 when it began and
\* only then lowers the life of the others by deltaTime.  So after every
\* completed tick each particle of the collection had life > 0 before this
\* tick's decrement (life + deltaTime > 0); one whose life the tick brought to
\* <= 0 is still in the collection and is removed by the next tick.
C1_ParticlesAliveBeforeDecrement ==
  AfterTick => \A p \in Range(particlesRef) : p.life + tick.deltaTime > 0

\* a tick that removed a dead particle and left another one dead
C1_Witness ==
  /\ AfterTick
  /\ tick.prunedParticles > 0
  /\ \E p \in Range(particlesRef) : p.life <= 0

\* C2 as stated: after every completed tick every laser of the collection
\* lies inside the viewport, and no laser was wrapped to the opposite edge.
C2_LasersInViewNeverWrapped ==
  AfterTick => /\ \A l \in Range(lasersRef) : InView(l, dimensions)
               /\ tick.wrappedLasers = {}

\* C3 as stated: after a tick the player, every enemy and every particle lies
\* within [-radius, extent + radius] on both axes, for its current radius and
\* the current viewport.
C3_AllInWrapBand ==
  AfterTick =>
    /\ playerRef # NoPlayer => InWrapBand(playerRef[1], dimensions)
    /\ \A e \in Range(enemiesRef) : InWrapBand(e, dimensions)
    /\ \A p \in Range(particlesRef) : InWrapBand(p, dimensions)

\* C3: after every completed tick the player and every enemy lie within
\* [-radius, width + radius] x [-radius, height + radius] of the viewport the
\* tick ran in.  Particles are not covered (their radius is recomputed after
\* the wrap and bursts start at the position of an enemy), and after a resize
\* the bound holds again only once the next tick has run.
C3_PlayerAndEnemiesInWrapBand ==
  AfterTick =>
    /\ playerRef # NoPlayer => InWrapBand(playerRef[1], dimensions)
    /\ \A e \in Range(enemiesRef) : InWrapBand(e, dimensions)

\* a tick in which an enemy left through the top and was wrapped to the bottom
C3_Witness ==
  /\ AfterTick
  /\ \E e \in Range(enemiesRef) :
       /\ e.velocity.y < 0
       /\ e.position.y = dimensions.height + e.radius

\* C4: right after the spawn decision of a tick the number of live enemies
\* is at most 5 + floor(score / 500) for the score the tick began with, and
\* in every state (after ticks, kills and resets alike) the number of live
\* enemies is at most 5 + floor(score / 500) for the current score.
C4_SpawnCap ==
  /\ Len(enemiesRef) <= 5 + score \div 500
  /\ AfterTick => tick.afterSpawn <= 5 + tick.score0 \div 500

\* a tick with a raised cap (score >= 500) that found the cap reached and
\* spawned nothing
C4_Witness ==
  /\ AfterTick
  /\ tick.score0 >= 500
  /\ tick.spawned = << >>
  /\ tick.afterSpawn = 5 + tick.score0 \div 500

\* the hits of the last tick that landed on enemy e
HitsOn(e) == {i \in 1..Len(tick.hits) : tick.hits[i].enemy = e.id}

\* e went into the laser sweep of the last tick and did not come out of it
Destroyed(e) == e.id \notin Range(tick.contact)

RECURSIVE AwardsOf(_)
AwardsOf(es) ==
  IF es = << >> THEN 0
  ELSE (IF Destroyed(Head(es)) THEN (Head(es).maxHealth * 5) \div HP ELSE 0)
       + AwardsOf(Tail(es))

HitLasers == {tick.hits[i].laser : i \in 1..Len(tick.hits)}

C6_ResetIdempotent ==
  LET once  == resetGame(World, dimensions)
      twice == resetGame(once, dimensions)
  IN  /\ twice = once
      /\ once.score = 0
      /\ once.enemies = << >>
      /\ once.lasers = << >>
      /\ once.particles = << >>
      /\ once.player # NoPlayer
      /\ 2 * once.player[1].position.x = dimensions.width
      /\ 2 * once.player[1].position.y = dimensions.height
      /\ once.player[1].health = once.player[1].maxHealth
      /\ once.player[1].velocity = Vec(0, 0)
      /\ once.player[1].rotation = 0
      /\ lastOp = "start" => World = once

\* a restart: startGame has reset a game in which entities had been created
C6_Witness ==
  /\ lastOp = "start"
  /\ nextId > 1
  /\ frames > 0

\* C7: in a tick in which enemies overlap the player, the contact lowers the
\* player's health by exactly 20 and removes exactly one enemy, the first
\* overlapping one in collection order; every other enemy stays.
C7_ContactResolvesFirstOnly ==
  AfterTick /\ tick.overlap # << >> =>
    /\ tick.contactHealth[2] = tick.contactHealth[1] - 20
    /\ tick.afterContact = SelectSeq(tick.contact, LAMBDA id : id # tick.overlap[1])
    /\ Len(tick.afterContact) = Len(tick.contact) - 1
    /\ Ids(enemiesRef) = tick.afterContact

\* a tick in which two enemies overlapped the player
C7_Witness ==
  /\ AfterTick
  /\ Len(tick.overlap) >= 2

\* C8: the tick in which the player's health reaches <= 0 leaves the player
\* absent and the status Playing, with the timer pending; while the timer is
\* pending the status is Playing, the player absent and a frame pending; and
\* the status becomes GameOver only by the timer's callback, once it is due.
C8_DeathDefersGameOver ==
  /\ [](AfterTick /\ tick.died =>
          playerRef = NoPlayer /\ gameStatus = "Playing" /\ timers # << >>)
  /\ [](timers # << >> =>
          gameStatus = "Playing" /\ playerRef = NoPlayer /\ queue # {})
  /\ [][gameStatus' = "GameOver" /\ gameStatus # "GameOver" =>
          lastOp' = "timer" /\ timers # << >> /\ Head(timers) <= now]_vars

\* a tick that ran after the player's death, before the timer fired
C8_Witness ==
  /\ AfterTick
  /\ ~tick.died
  /\ playerRef = NoPlayer
  /\ timers # << >>
  /\ gameStatus = "Playing"

C10_SpawnTypeGated ==
  AfterTick =>
    \A e \in Range(tick.spawned) :
      /\ e.health = e.maxHealth
      /\ e.type \in {"Meteor", "Saucer", "Mothership"}
      /\ e.type = "Meteor" =>
           /\ e.radius >= 15 * PX /\ e.radius <= 40 * PX
           /\ 2 * PX * e.health = HP * e.radius
      /\ e.type = "Saucer" =>
           tick.score0 > 200 /\ e.radius = 20 * PX /\ e.health = 10 * HP
      /\ e.type = "Mothership" =>
           tick.score0 > 1000 /\ e.radius = 60 * PX /\ e.health = 50 * HP
      /\ tick.score0 <= 200 => e.type = "Meteor"

\* a tick that spawned a Mothership
C10_Witness ==
  /\ AfterTick
  /\ \E e \in Range(tick.spawned) : e.type = "Mothership"

\* obj1 is obj0 moved by its velocity, or teleported to an edge of the band
MovedFrom(obj1, obj0, dims) ==
  /\ obj1.position.x \in {obj0.position.x + obj0.velocity.x,
                          dims.width + obj0.radius, -obj0.radius}
  /\ obj1.position.y \in {obj0.position.y + obj0.velocity.y,
                          dims.height + obj0.radius, -obj0.radius}
  /\ obj1.position # obj0.position \/ obj0.velocity = Vec(0, 0)

\* C11: a tick that runs while the player is absent completes and creates
\* no player laser (whatever keys are held), no enemy laser (whichever
\* shooters roll a shot) and no exhaust particle, resolves no contact and no
\* enemy-laser hit, leaves the player absent and schedules no timer; in it
\* every enemy is moved (a meteor also turned), the lasers inside the viewport
\* are kept and moved, and the particles with life left are kept and aged by
\* deltaTime.
C11_AbsentPlayerNoOp ==
  AfterTick /\ tick.absent =>
    LET s == tick.steps[1]
        keptLasers == SelectSeq(s.lasers0, LAMBDA l : InView(l, dimensions))
        keptParticles == SelectSeq(s.particles0, LAMBDA q : q.life > 0)
    IN  /\ tick.fired = << >>
        /\ tick.shot = << >>
        /\ tick.thrust = 0
        /\ tick.overlap = << >>
        /\ tick.afterContact = tick.contact
        /\ tick.playerHits = << >>
        /\ tick.duelLeft = Ids(tick.duelLasers)
        /\ playerRef = NoPlayer
        /\ ~tick.died
        /\ timers = tick.timers0
        /\ Ids(s.enemies1) = Ids(s.enemies0)
        /\ \A i \in 1..Len(s.enemies0) :
             /\ MovedFrom(s.enemies1[i], s.enemies0[i], dimensions)
             /\ s.enemies0[i].type = "Meteor" =>
                  s.enemies1[i].rotation = s.enemies0[i].rotation + 1
        /\ Ids(s.lasers1) = Ids(keptLasers)
        /\ \A i \in 1..Len(keptLasers) : MovedFrom(s.lasers1[i], keptLasers[i], dimensions)
        /\ Len(s.particles1) = Len(keptParticles)
        /\ \A i \in 1..Len(keptParticles) :
             s.particles1[i].life = keptParticles[i].life - tick.deltaTime

\* a tick without a player in which the fire key was held, a saucer rolled a
\* shot and enemies, lasers and particles were there to be stepped
C11_Witness ==
  /\ AfterTick
  /\ tick.absent
  /\ "Space" \in tick.keys
  /\ tick.rolled # {}
  /\ tick.steps[1].enemies0 # << >>
  /\ \E l \in Range(tick.steps[1].lasers0) : InView(l, dimensions)
  /\ \E q \in Range(tick.steps[1].particles0) : q.life > 0

\* the enemies of the last tick's sweep, by index, that laser l overlapped
Overlapped(l) == {i \in 1..Len(tick.combat) : checkCollision(l, tick.combat[i])}

\* the laser of the last tick's sweep with this id
SweepLaser(id) == CHOOSE l \in Range(tick.sweepLasers) : l.id = id

\* C12: in the sweep of a tick no laser hits twice; a laser that hits is a
\* player laser, hits the first enemy in collection order that it overlaps,
\* and is not in the collection after the tick; every enemy that survives
\* the sweep has lost 5 health for each laser that hit it and nothing else, so
\* the other enemies a laser overlaps lose nothing to it.
C12_LaserHitsOneEnemy ==
  AfterTick =>
    /\ \A i, j \in 1..Len(tick.hits) :
         tick.hits[i].laser = tick.hits[j].laser => i = j
    /\ \A i \in 1..Len(tick.hits) :
         LET l == SweepLaser(tick.hits[i].laser)
         IN  /\ l.isPlayerLaser
             /\ Overlapped(l) # {}
             /\ tick.combat[Min(Overlapped(l))].id = tick.hits[i].enemy
             /\ l.id \notin Range(Ids(lasersRef))
    /\ \A e \in Range(tick.combat) :
         \A e1 \in Range(tick.swept) :
           e1.id = e.id => e1.health = e.health - 5 * HP * Cardinality(HitsOn(e))

\* a tick in which a laser overlapped two enemies, hit the first, and the
\* second kept its health
C12_Witness ==
  /\ AfterTick
  /\ \E i \in 1..Len(tick.hits) :
       LET over == Overlapped(SweepLaser(tick.hits[i].laser))
       IN  /\ Cardinality(over) >= 2
           /\ \E k \in over \ {Min(over)} :
                \E e1 \in Range(tick.swept) :
                  e1.id = tick.combat[k].id /\ e1.health = tick.combat[k].health

\* C13: every enemy of the collection has 0 < health <= maxHealth and so has
\* the player when there is one; after a tick no enemy that the sweep brought
\* to health <= 0 is in the collection, and the player is absent exactly when
\* the tick's collisions left a player with health <= 0.
C13_HealthInRange ==
  /\ \A e \in Range(enemiesRef) : 0 < e.health /\ e.health <= e.maxHealth
  /\ playerRef # NoPlayer =>
       0 < playerRef[1].health /\ playerRef[1].health <= PLAYER_MAX_HEALTH
  /\ AfterTick =>
       /\ \A e \in Range(tick.combat) :
            e.health - 5 * HP * Cardinality(HitsOn(e)) <= 0 /\ HitsOn(e) # {}
              => e.id \notin Range(Ids(enemiesRef))
       /\ tick.duelHealth # << >> =>
            (tick.duelHealth[1] <= 0 <=> playerRef = NoPlayer)
       /\ tick.died <=> (tick.duelHealth # << >> /\ tick.duelHealth[1] <= 0)

\* a tick in which the player's health reached <= 0 and the player was set
\* absent, while a damaged enemy lives on
C13_Witness ==
  /\ AfterTick
  /\ tick.died
  /\ tick.duelHealth[1] <= 0
  /\ \E e \in Range(enemiesRef) : e.health < e.maxHealth

\* C14: a tick spawns at most one player laser, and spawns one only with the
\* fire key held, a player present and more than 200 ms on the clock since
\* the time recorded at the previous spawn; the spawn records the clock.  A
\* player laser enters the collection only by such a spawn, and the recorded
\* time changes only by one, so neither a reset nor a restart shortens the
\* wait.
C14_FireCooldown ==
  /\ [](AfterTick =>
          /\ Len(tick.fired) <= 1
          /\ tick.fired # << >> =>
               /\ "Space" \in tick.keys
               /\ ~tick.absent
               /\ tick.fired[1].isPlayerLaser
               /\ now - tick.lastShot0 > PLAYER_SHOOT_COOLDOWN
               /\ lastShotTimeRef = now
          /\ tick.fired = << >> => lastShotTimeRef = tick.lastShot0)
  /\ [][/\ lastShotTimeRef' # lastShotTimeRef =>
             lastOp' = "tick" /\ tick'.fired # << >>
        /\ \A l \in Range(lasersRef') :
             l.isPlayerLaser /\ l.id \notin Range(Ids(lasersRef)) =>
               lastOp' = "tick" /\ l.id \in Range(Ids(tick'.fired))]_vars

\* a tick with a player and the fire key held that spawned nothing, 200 ms
\* after a spawn
C14_Witness ==
  /\ AfterTick
  /\ "Space" \in tick.keys
  /\ ~tick.absent
  /\ tick.fired = << >>
  /\ tick.lastShot0 > 0
  /\ now - tick.lastShot0 = PLAYER_SHOOT_COOLDOWN

\* the enemy lasers of the last tick's player check that overlapped player p
HitPlayer(p) ==
  {l \in Range(tick.duelLasers) : ~l.isPlayerLaser /\ checkCollision(l, p)}

\* C15: in a tick the enemy check consumes player lasers only, so every enemy
\* laser that goes into it comes out of it, and an enemy that survives it has
\* lost 5 health for each player laser that hit it; the player check leaves
\* every player laser in the collection, and with a player present it removes
\* exactly the enemy lasers that overlap the player and takes 10 health for
\* each of them and nothing else; without a player it removes nothing.
C15_FactionRouting ==
  AfterTick =>
    /\ \A h \in Range(tick.hits) : SweepLaser(h.laser).isPlayerLaser
    /\ \A l \in Range(tick.sweepLasers) :
         ~l.isPlayerLaser => l.id \in Range(tick.combatLeft)
    /\ \A e \in Range(tick.combat) : \A e1 \in Range(tick.swept) :
         e1.id = e.id =>
           e.health - e1.health =
             5 * HP * Cardinality({l \in Range(tick.sweepLasers) :
                                     /\ l.isPlayerLaser
                                     /\ l.id \notin Range(tick.combatLeft)
                                     /\ \E h \in Range(tick.hits) :
                                          h.laser = l.id /\ h.enemy = e.id})
    /\ \A l \in Range(tick.duelLasers) :
         l.isPlayerLaser => l.id \in Range(tick.duelLeft)
    /\ IF tick.duelPlayer = NoPlayer
       THEN tick.duelLeft = Ids(tick.duelLasers) /\ tick.playerHits = << >>
       ELSE LET p == tick.duelPlayer[1]
            IN  /\ Range(tick.playerHits) = {l.id : l \in HitPlayer(p)}
                /\ Len(tick.playerHits) = Cardinality(HitPlayer(p))
                /\ tick.duelHealth[1] = p.health - 10 * Cardinality(HitPlayer(p))
                /\ Range(tick.duelLeft) =
                     {l.id : l \in Range(tick.duelLasers) \ HitPlayer(p)}

\* a tick in which an enemy laser hit the player while a player laser
\* overlapped the player and an enemy laser overlapped an enemy, and both
\* stayed in the collection
C15_Witness ==
  /\ AfterTick
  /\ tick.playerHits # << >>
  /\ tick.duelPlayer # NoPlayer
  /\ \E l \in Range(tick.duelLasers) :
       /\ l.isPlayerLaser
       /\ checkCollision(l, tick.duelPlayer[1])
       /\ l.id \in Range(tick.duelLeft)
  /\ \E l \in Range(tick.sweepLasers) : \E e \in Range(tick.combat) :
       /\ ~l.isPlayerLaser
       /\ checkCollision(l, e)
       /\ l.id \in Range(tick.combatLeft)

\* the number of enemies the spawn block of the last tick found
BeforeSpawn == tick.afterSpawn - Len(tick.spawned)

\* C16: a tick adds one enemy when the count its spawn block finds is below
\* the cap, however far below, and none when it is at or above the cap; an
\* enemy enters the collection in no other way.
C16_OneSpawnPerTick ==
  /\ [](AfterTick =>
          /\ Len(tick.spawned) <= 1
          /\ BeforeSpawn >= enemyCap(tick.score0) => tick.spawned = << >>
          /\ BeforeSpawn < enemyCap(tick.score0) => Len(tick.spawned) = 1)
  /\ [][\A e \in Range(enemiesRef') :
          e.id \notin Range(Ids(enemiesRef)) =>
            lastOp' = "tick" /\ Ids(tick'.spawned) = <<e.id>>]_vars

\* a tick that found the count three or more below the cap and added one enemy
C16_Witness ==
  /\ AfterTick
  /\ BeforeSpawn + 3 <= enemyCap(tick.score0)
  /\ Len(tick.spawned) = 1
  /\ tick.afterSpawn = BeforeSpawn + 1

\* C17: the score after a tick is the score its laser sweep left, whatever
\* the contact with the player removed afterwards; the score changes only in
\* a tick whose sweep destroyed an enemy, and then it grows, or in a start or
\* restart, which sets it to 0.
C17_ContactAwardsNothing ==
  /\ [](AfterTick => score = tick.sweepScore)
  /\ [][score' # score =>
          \/ /\ lastOp' = "tick"
             /\ score' > score
             /\ \E e \in Range(tick'.combat) : e.id \notin Range(tick'.contact)
          \/ /\ lastOp' = "start"
             /\ score' = 0]_vars

\* a tick in which the contact with the player removed an enemy and the sweep
\* destroyed none: the score is as before
C17_Witness ==
  /\ AfterTick
  /\ tick.overlap # << >>
  /\ Len(tick.afterContact) = Len(tick.contact) - 1
  /\ Len(tick.contact) = Len(tick.combat)
  /\ score = tick.score0

\* C18: when time does not stop and a due timer fires, a tick in which the
\* player dies is followed by the status GameOver.  A tick schedules one
\* timer, due a second later, if the player died in it and none otherwise; a
\* timer leaves only by firing; at most one is pending, and none is pending
\* when a game is started, so no timer of a game fires in the next one.
C18_DeathLeadsToGameOver ==
  /\ (AfterTick /\ tick.died) ~> (gameStatus = "GameOver")
  /\ [](Len(timers) <= 1)
  /\ [](AfterTick =>
          timers = IF tick.died THEN Append(tick.timers0, now + 1000)
                                ELSE tick.timers0)
  /\ [][timers' # timers =>
          \/ lastOp' = "tick" /\ tick'.died
          \/ lastOp' = "timer" /\ timers' = Tail(timers)]_vars
  /\ [][lastOp' = "start" => timers = << >> /\ timers' = << >>]_vars

\* the timer of a death has fired: the game is over, no timer is left
C18_Witness ==
  /\ lastOp = "timer"
  /\ gameStatus = "GameOver"
  /\ playerRef = NoPlayer
  /\ timers = << >>
  /\ now >= 1000

\* C19: the status changes only from StartScreen to Playing by a start, from
\* Playing to GameOver by the timer's callback, and from GameOver to Playing
\* by a restart, so StartScreen is never entered again; while the status is
\* GameOver there is no player; and the state in which Playing is entered is
\* a reset one: a player at full health, no enemy, laser or particle, score 0.
C19_StatusTransitions ==
  /\ [][gameStatus' # gameStatus =>
          \/ /\ gameStatus = "StartScreen"
             /\ gameStatus' = "Playing"
             /\ lastOp' = "start"
          \/ /\ gameStatus = "Playing"
             /\ gameStatus' = "GameOver"
             /\ lastOp' = "timer"
          \/ /\ gameStatus = "GameOver"
             /\ gameStatus' = "Playing"
             /\ lastOp' = "start"]_vars
  /\ [](gameStatus = "GameOver" => playerRef = NoPlayer)
  /\ [][gameStatus' = "Playing" /\ gameStatus # "Playing" =>
          /\ playerRef' # NoPlayer
          /\ playerRef'[1].health = PLAYER_MAX_HEALTH
          /\ enemiesRef' = << >>
          /\ lasersRef' = << >>
          /\ particlesRef' = << >>
          /\ score' = 0]_vars

\* Playing entered from GameOver: a restart after a game that was played
C19_Witness ==
  /\ lastOp = "start"
  /\ gameStatus = "Playing"
  /\ now >= 1000
  /\ playerRef # NoPlayer
  /\ enemiesRef = << >>

\* C20: at most one animation-frame request is pending, and a pending request
\* is the one requestRef names; so a frame runs at most one tick.
C20_OneRequestPending ==
  /\ Cardinality(queue) <= 1
  /\ \A f \in queue : f.handle = requestRef

\* a tick changed the score, the effect ran again for the new callback, and
\* the one request pending is the new callback's
C20_Witness ==
  /\ AfterTick
  /\ score # tick.score0
  /\ Cardinality(queue) = 1
  /\ \A f \in queue : f.score = score

\* C21: a frame that is the first since the status became Playing runs no
\* tick and changes nothing of the game; every other frame runs one tick, and
\* the deltaTime of that tick is the time since the frame before it, which
\* ran in the same stretch of Playing.
C21_DeltaWithinRunningPeriod ==
  [][frames' = frames + 1 =>
       IF lastFrame = << >>
       THEN /\ lastOp' = "frame"
            /\ tick' = NoTick
            /\ World' = World
       ELSE /\ lastOp' = "tick"
            /\ gameStatus = "Playing"
            /\ tick'.deltaTime = now' - lastFrame[1]
            /\ tick'.deltaTime > 0]_vars

\* the first frame of a game that was started after another one: it has run
\* and no tick with it
C21_Witness ==
  /\ lastOp = "frame"
  /\ frames >= 2
  /\ lastFrame = <<now>>
  /\ now >= 2000
  /\ gameStatus = "Playing"

====
